---- MODULE Spec2Model ----
(***************************************************************************)
(* Model of the document synchronisation layer of lumi-litellm's frontend: *)
(* ApiService.connectDocumentSocket / closeAllWebSockets and the WebSocket *)
(* event handlers they install (api.service.ts).                           *)
(*                                                                         *)
(* A socket is the browser WebSocket object created by `new WebSocket`.    *)
(* Its readyState and its events follow the WebSocket API: message events  *)
(* are dispatched only while the socket is OPEN, close() on a CONNECTING   *)
(* socket fails the connection (error event, then close event), and the    *)
(* error and close events of one closure are dispatched back to back.      *)
(*                                                                         *)
(* The request/response side is ApiService.fetchApi with requestPaperImport *)
(* and getMetadata, and HomeService's metadata map filled by loadMetadata   *)
(* from HistoryService's local store, which is fixed during a run.          *)
(***************************************************************************)
EXTENDS Integers, Sequences, FiniteSets, TLC

\* ------------------------------------------------------------------ bounds
MaxApiCalls == 2        \* request/response calls ever made (request runs)
HomeMaxApiCalls == 1    \* request/response calls ever made (cache runs)
MaxSockets == 2         \* sockets ever created (registry runs)
MaxFrames == 1          \* frames the transport delivers in total (registry runs)
ReplaceMaxSockets == 3  \* sockets ever created (replacement runs)
ReplaceMaxFrames == 1   \* frames the transport delivers in total (replacement runs)
CodecMaxSockets == 1    \* sockets ever created (codec runs)
CodecMaxFrames == 2     \* frames the transport delivers in total (codec runs)
ThrowMaxSockets == 1    \* sockets ever created (consumer-exception runs)
ThrowMaxFrames == 3     \* frames the transport delivers in total (consumer-exception runs)
CollideMaxSockets == 2  \* sockets ever created (key runs)
CollideMaxFrames == 1   \* frames the transport delivers in total (key runs)
FacadeMaxSockets == 1   \* sockets ever created (input runs)
FacadeMaxFrames == 1    \* frames the transport delivers in total (input runs)
FacadeMaxApiCalls == 1  \* request/response calls ever made (input runs)
ImportMaxSockets == 1   \* sockets ever created (import runs)
ImportMaxFrames == 2    \* frames the transport delivers in total (import runs)
ImportMaxApiCalls == 2  \* request/response calls ever made (import runs)

\* ------------------------------------------------------------------ inputs
\* (arxivId, version) pairs the consumer connects with.
DocKeys == { <<"a", "c">>, <<"a_b", "c">> }

\* The one pair the replacement and codec runs connect with.
CodecKeys == { <<"a", "c">> }

\* Raw text of one envelope, as a token sequence: { key value key value ... }
EnvelopeText(paperId, version, type, hasData, data) ==
    <<"{", "paper_id", paperId, "version", version, "type", type>>
        \o (IF hasData THEN <<"data", data>> ELSE << >>) \o <<"}">>

\* Raw frames the backend (or a broken peer) may send.
RawFrames ==
    { <<"{", "paper_id">>, <<"null">> }
    \cup { EnvelopeText(k[1], k[2], "data", TRUE, "d1") : k \in DocKeys }
    \cup { EnvelopeText("a", "c", "status", FALSE, "") }

\* Frames of the registry runs: one malformed, one well-formed.
RegistryFrames ==
    { <<"{", "paper_id">>, EnvelopeText("a", "c", "data", TRUE, "d1") }

\* Two pairs whose `${arxivId}_${version}` is the same string.
CollidingKeys == { <<"a_b", "c">>, <<"a", "b_c">> }

\* Pairs with an empty id or an empty version, and the ids and versions the
\* status poll is called with.
EmptyKeys == { <<"", "c">>, <<"a", "">> }
StatusIds == { "", "a" }
StatusVersions == { "", "c" }

\* The frames of an import: the payload of the status frame stands for
\* {loading_status: processing}, the payload of the data frame for the content.
ImportFrames ==
    { EnvelopeText("a", "c", "status", TRUE, "processing"),
      EnvelopeText("a", "c", "data", TRUE, "content") }

\* ------------------------------------------------------------------ state
VARIABLES
    sockets,      \* Seq of WebSocket objects, in creation order
    websockets,   \* ApiService.websockets : wsKey -> index into sockets
    received,     \* per socket: raw frames dispatched to ws.onmessage
    calls,        \* per socket: consumer callbacks invoked, in order
    closeAt,      \* per socket: Len(calls) when the service called close(), else -1
    closedBy,     \* per socket: "none" | "replace" | "closeAll"
    establishFailed,  \* per socket: the transport failed while CONNECTING
    connectCalls, \* number of connectDocumentSocket calls made
    transportEnded,   \* per socket: the transport failed or the server closed it
    lastOp,       \* the operation or event handled last
    env,          \* the run's inputs and limits (fixed by Init)
    apiCalls,     \* Seq of request/response calls made through ApiService.fetchApi
    historyStore, \* HistoryService's persisted papers : paperId -> PaperData
    paperToMetadataMap,   \* HomeService.paperToMetadataMap
    home,         \* HomeService's other fields
    lastLoad      \* arguments of the latest loadMetadata call

socketVars == <<sockets, websockets, received, calls, closeAt, closedBy,
                establishFailed, connectCalls, transportEnded, env>>

syncVars == <<apiCalls, historyStore, paperToMetadataMap, home, lastLoad>>

vars == <<socketVars, lastOp, syncVars>>

\* ------------------------------------------------------------------ helpers
Range(f) == { f[x] : x \in DOMAIN f }

\* Map.delete(key)
MapDelete(m, key) == [k \in (DOMAIN m) \ {key} |-> m[k]]

\* Map.set(key, value)
MapSet(m, key, value) == (key :> value) @@ m

\* const wsKey = `${arxivId}_${version}`
wsKey(arxivId, version) == arxivId \o "_" \o version

\* ------------------------------------------------------------------ JSON
SyntaxError == [ok |-> FALSE]
JsNull == [t |-> "null"]
JsUndefined == [t |-> "undefined"]
JsString(s) == [t |-> "string", v |-> s]
JsObject(fields) == [t |-> "object", f |-> fields]

\* JSON.parse(event.data): an object literal, the literal null, or a throw.
JSONparse(raw) ==
    IF raw = <<"null">> THEN [ok |-> TRUE, value |-> JsNull]
    ELSE IF /\ Len(raw) >= 2
            /\ raw[1] = "{"
            /\ raw[Len(raw)] = "}"
            /\ (Len(raw) - 2) % 2 = 0
         THEN LET n == (Len(raw) - 2) \div 2
                  keys == { raw[2 * i] : i \in 1..n }
                  \* a repeated key keeps its last value
                  last(k) == CHOOSE i \in 1..n :
                                /\ raw[2 * i] = k
                                /\ \A j \in 1..n : raw[2 * j] = k => j <= i
              IN [ok |-> TRUE,
                  value |-> JsObject([k \in keys |-> raw[2 * last(k) + 1]])]
         ELSE SyntaxError

\* message.<name> on a parsed object
Member(message, name) ==
    IF name \in DOMAIN message.f THEN JsString(message.f[name]) ELSE JsUndefined

\* JavaScript truthiness
Truthy(v) ==
    CASE v.t = "undefined" -> FALSE
      [] v.t = "null" -> FALSE
      [] v.t = "string" -> v.v # ""
      [] OTHER -> TRUE

\* ------------------------------------------------------------------ WebSocket
\* ws.close(): no effect once CLOSING/CLOSED; on a CONNECTING socket the
\* connection is failed, so its closure fires an error event first.
Close(ws) ==
    IF ws.readyState \in {"CLOSING", "CLOSED"} THEN ws
    ELSE IF ws.readyState = "CONNECTING"
         THEN [ws EXCEPT !.readyState = "CLOSING", !.failRequired = TRUE]
         ELSE [ws EXCEPT !.readyState = "CLOSING"]

\* new WebSocket(wsUrl) with the handlers' closure (arxivId, version, onError)
NewSocket(arxivId, version, hasOnError) ==
    [arxivId |-> arxivId, version |-> version,
     wsKey |-> wsKey(arxivId, version),
     hasOnError |-> hasOnError,
     readyState |-> "CONNECTING", failRequired |-> FALSE]

FramesDelivered ==
    LET RECURSIVE Sum(_)
        Sum(n) == IF n = 0 THEN 0 ELSE Len(received[n]) + Sum(n - 1)
    IN Sum(Len(sockets))

\* ------------------------------------------------------------------ handlers
\* A frame decodes when JSON.parse returns and the handler can read its fields.
Decodes(raw) == JSONparse(raw).ok /\ JSONparse(raw).value # JsNull

\* onmessage that stops delivering once a frame failed to parse
onmessageDeafAfterBadFrame(w, raw, idx) ==
    IF \/ \E i \in 1..Len(received[w]) : ~JSONparse(received[w][i]).ok
       \/ ~Decodes(raw)
    THEN << >>
    ELSE LET message == JSONparse(raw).value
             data == Member(message, "data")
         IN << [cb |-> "onUpdate", frame |-> idx,
                arg |-> IF Truthy(data) THEN data ELSE message] >>

\* onmessage that coalesces a frame equal to the one before it
onmessageCoalescing(w, raw, idx) ==
    IF \/ (Len(received[w]) > 0 /\ received[w][Len(received[w])] = raw)
       \/ ~Decodes(raw)
    THEN << >>
    ELSE LET message == JSONparse(raw).value
             data == Member(message, "data")
         IN << [cb |-> "onUpdate", frame |-> idx,
                arg |-> IF Truthy(data) THEN data ELSE message] >>

\* ws.onmessage: the callbacks it invokes for frame number idx of socket w
onmessage(w, raw, idx) ==
    LET parsed == JSONparse(raw) IN
    IF ~parsed.ok THEN << >>                      \* JSON.parse threw: logged
    ELSE IF parsed.value = JsNull THEN << >>      \* message.paper_id threw: logged
    ELSE LET message == parsed.value
             data == Member(message, "data")
         IN << [cb |-> "onUpdate", frame |-> idx,
                arg |-> IF Truthy(data) THEN data ELSE message] >>

\* onerror that only logs
onerrorSilent(w) == << >>

\* ws.onerror: if (onError) onError(error)
onerror(w) ==
    IF sockets[w].hasOnError THEN << [cb |-> "onError", frame |-> 0] >> ELSE << >>

\* onclose that only logs
oncloseKeepsEntry(w) == websockets

\* ws.onclose: this.websockets.delete(wsKey)
onclose(w) == MapDelete(websockets, sockets[w].wsKey)

\* ------------------------------------------------------------------ Init
InitState ==
    /\ sockets = << >>
    /\ websockets = << >>
    /\ received = << >>
    /\ calls = << >>
    /\ closeAt = << >>
    /\ closedBy = << >>
    /\ establishFailed = << >>
    /\ connectCalls = 0
    /\ transportEnded = << >>
    /\ lastOp = "init"
    /\ apiCalls = << >>
    /\ paperToMetadataMap = << >>
    /\ home = [collections |-> << >>, hasLoadedCollections |-> FALSE,
               isLoadingCollections |-> FALSE, currentCollection |-> "undefined"]
    /\ lastLoad = << >>

\* registry runs: several documents, few frames, every consumer passes onError
Init ==
    /\ InitState
    /\ env = [maxSockets |-> MaxSockets, maxFrames |-> MaxFrames,
              keys |-> DocKeys, frames |-> RegistryFrames,
              onErrorGiven |-> {TRUE}, onUpdateThrows |-> {FALSE}]
    /\ historyStore = << >>

\* replacement runs: one document connected again and again
InitReplace ==
    /\ InitState
    /\ env = [maxSockets |-> ReplaceMaxSockets, maxFrames |-> ReplaceMaxFrames,
              keys |-> CodecKeys, frames |-> RegistryFrames,
              onErrorGiven |-> {TRUE}, onUpdateThrows |-> {FALSE}]
    /\ historyStore = << >>

\* codec runs: one document, every kind of frame, onError optional
InitCodec ==
    /\ InitState
    /\ env = [maxSockets |-> CodecMaxSockets, maxFrames |-> CodecMaxFrames,
              keys |-> CodecKeys, frames |-> RawFrames,
              onErrorGiven |-> BOOLEAN, onUpdateThrows |-> {FALSE}]
    /\ historyStore = << >>

\* consumer-exception runs: one document, an onUpdate that may throw
InitThrow ==
    /\ InitState
    /\ env = [maxSockets |-> ThrowMaxSockets, maxFrames |-> ThrowMaxFrames,
              keys |-> CodecKeys, frames |-> RegistryFrames,
              onErrorGiven |-> {TRUE}, onUpdateThrows |-> BOOLEAN]
    /\ historyStore = << >>

\* key runs: two pairs that concatenate to the same key
InitCollide ==
    /\ InitState
    /\ env = [maxSockets |-> CollideMaxSockets, maxFrames |-> CollideMaxFrames,
              keys |-> CollidingKeys, frames |-> RegistryFrames,
              onErrorGiven |-> {TRUE}, onUpdateThrows |-> {FALSE}]
    /\ historyStore = << >>

\* ------------------------------------------------------------------ operations
connectDocumentSocket(arxivId, version, hasOnError) ==
    LET key == wsKey(arxivId, version)
        existing == IF key \in DOMAIN websockets THEN websockets[key] ELSE 0
        n == Len(sockets) + 1
    IN
    /\ Len(sockets) < env.maxSockets
    /\ sockets' = Append(IF existing # 0
                         THEN [sockets EXCEPT ![existing] = Close(@)]
                         ELSE sockets,
                         NewSocket(arxivId, version, hasOnError))
    /\ websockets' = MapSet(websockets, key, n)
    /\ received' = Append(received, << >>)
    /\ calls' = Append(calls, << >>)
    /\ closeAt' = Append(IF existing # 0
                         THEN [closeAt EXCEPT ![existing] = Len(calls[existing])]
                         ELSE closeAt, -1)
    /\ closedBy' = Append(IF existing # 0
                          THEN [closedBy EXCEPT ![existing] = "replace"]
                          ELSE closedBy, "none")
    /\ establishFailed' = Append(establishFailed, FALSE)
    /\ connectCalls' = connectCalls + 1
    /\ transportEnded' = Append(transportEnded, FALSE)
    /\ lastOp' = "connect"
    /\ UNCHANGED <<env, syncVars>>

\* closeAllWebSockets that closes and removes only one entry
closeAllWebSocketsFirstOnly ==
    LET registered == IF DOMAIN websockets = {} THEN {}
                      ELSE { websockets[CHOOSE k \in DOMAIN websockets : TRUE] }
    IN
    /\ sockets' = [w \in DOMAIN sockets |->
                     IF w \in registered THEN Close(sockets[w]) ELSE sockets[w]]
    /\ websockets' = IF DOMAIN websockets = {} THEN websockets
                     ELSE MapDelete(websockets, CHOOSE k \in DOMAIN websockets : TRUE)
    /\ closeAt' = [w \in DOMAIN closeAt |->
                     IF w \in registered THEN Len(calls[w]) ELSE closeAt[w]]
    /\ closedBy' = [w \in DOMAIN closedBy |->
                     IF w \in registered THEN "closeAll" ELSE closedBy[w]]
    /\ lastOp' = "closeAll"
    /\ UNCHANGED <<received, calls, establishFailed, connectCalls,
                   transportEnded, env, syncVars>>

closeAllWebSockets ==
    LET registered == Range(websockets) IN
    /\ sockets' = [w \in DOMAIN sockets |->
                     IF w \in registered THEN Close(sockets[w]) ELSE sockets[w]]
    /\ websockets' = << >>
    /\ closeAt' = [w \in DOMAIN closeAt |->
                     IF w \in registered THEN Len(calls[w]) ELSE closeAt[w]]
    /\ closedBy' = [w \in DOMAIN closedBy |->
                     IF w \in registered THEN "closeAll" ELSE closedBy[w]]
    /\ lastOp' = "closeAll"
    /\ UNCHANGED <<received, calls, establishFailed, connectCalls,
                   transportEnded, env, syncVars>>

\* ------------------------------------------------------------------ transport events
\* open event: ws.onopen only logs
WsOpen(w) ==
    /\ sockets[w].readyState = "CONNECTING"
    /\ sockets' = [sockets EXCEPT ![w].readyState = "OPEN"]
    /\ lastOp' = "open"
    /\ UNCHANGED <<websockets, received, calls, closeAt, closedBy, establishFailed,
                   connectCalls, transportEnded, env, syncVars>>

\* number of import requests made for arxivId so far
ImportsRequested(arxivId) ==
    Cardinality({ i \in DOMAIN apiCalls :
                    /\ apiCalls[i].op = "requestPaperImport"
                    /\ apiCalls[i].arxivId = arxivId })

\* the invocations cs as they happened: whether the consumer's callback threw,
\* and how many imports of the document had been requested by then
Invoked(cs, arxivId, throws) ==
    [i \in DOMAIN cs |->
        cs[i] @@ [threw |-> throws, imports |-> ImportsRequested(arxivId)]]

\* a message handler whose catch block closes the socket
WsMessageClosingOnThrow(w, raw, throws) ==
    LET invoked == Invoked(onmessage(w, raw, Len(received[w]) + 1),
                           sockets[w].arxivId, throws)
    IN
    /\ sockets[w].readyState = "OPEN"
    /\ FramesDelivered < env.maxFrames
    /\ received' = [received EXCEPT ![w] = Append(@, raw)]
    /\ calls' = [calls EXCEPT ![w] = @ \o invoked]
    /\ sockets' = IF throws /\ invoked # << >>
                  THEN [sockets EXCEPT ![w] = Close(@)] ELSE sockets
    /\ lastOp' = "message"
    /\ UNCHANGED <<websockets, closeAt, closedBy, establishFailed,
                   connectCalls, transportEnded, env, syncVars>>

\* message event: ws.onmessage; whatever is thrown inside its try block, by
\* JSON.parse or by the consumer's onUpdate, is caught and logged
WsMessage(w, raw, throws) ==
    /\ sockets[w].readyState = "OPEN"
    /\ FramesDelivered < env.maxFrames
    /\ received' = [received EXCEPT ![w] = Append(@, raw)]
    /\ calls' = [calls EXCEPT ![w] =
                    @ \o Invoked(onmessage(w, raw, Len(received[w]) + 1),
                                 sockets[w].arxivId, throws)]
    /\ lastOp' = "message"
    /\ UNCHANGED <<sockets, websockets, closeAt, closedBy, establishFailed,
                   connectCalls, transportEnded, env, syncVars>>

\* a failure handler that reconnects by itself
WsFailReconnecting(w) ==
    /\ sockets[w].readyState \in {"CONNECTING", "OPEN"}
    /\ Len(sockets) < env.maxSockets
    /\ sockets' = Append([sockets EXCEPT ![w].readyState = "CLOSED"],
                         NewSocket(sockets[w].arxivId, sockets[w].version,
                                   sockets[w].hasOnError))
    /\ calls' = Append([calls EXCEPT ![w] = @ \o onerror(w)], << >>)
    /\ websockets' = MapSet(websockets, sockets[w].wsKey, Len(sockets) + 1)
    /\ received' = Append(received, << >>)
    /\ closeAt' = Append(closeAt, -1)
    /\ closedBy' = Append(closedBy, "none")
    /\ establishFailed' = Append([establishFailed EXCEPT
                              ![w] = (sockets[w].readyState = "CONNECTING")], FALSE)
    /\ transportEnded' = Append([transportEnded EXCEPT ![w] = TRUE], FALSE)
    /\ lastOp' = "fail"
    /\ UNCHANGED <<connectCalls, env, syncVars>>

\* the connection fails (refused while CONNECTING, or dropped while OPEN):
\* error event, then close event
WsFail(w) ==
    /\ sockets[w].readyState \in {"CONNECTING", "OPEN"}
    /\ sockets' = [sockets EXCEPT ![w].readyState = "CLOSED"]
    /\ calls' = [calls EXCEPT ![w] = @ \o onerror(w)]
    /\ websockets' = onclose(w)
    /\ establishFailed' = [establishFailed EXCEPT
                              ![w] = (sockets[w].readyState = "CONNECTING")]
    /\ transportEnded' = [transportEnded EXCEPT ![w] = TRUE]
    /\ lastOp' = "fail"
    /\ UNCHANGED <<received, closeAt, closedBy, connectCalls, env, syncVars>>

\* the closure requested by close() completes: error event if the connection
\* had to be failed, then close event
WsClosed(w) ==
    /\ sockets[w].readyState = "CLOSING"
    /\ sockets' = [sockets EXCEPT ![w].readyState = "CLOSED"]
    /\ calls' = [calls EXCEPT ![w] =
                    IF sockets[w].failRequired THEN @ \o onerror(w) ELSE @]
    /\ websockets' = onclose(w)
    /\ lastOp' = "closed"
    /\ UNCHANGED <<received, closeAt, closedBy, establishFailed, connectCalls,
                   transportEnded, env, syncVars>>

\* the server closes an OPEN connection cleanly: close event only
WsServerClose(w) ==
    /\ sockets[w].readyState = "OPEN"
    /\ sockets' = [sockets EXCEPT ![w].readyState = "CLOSED"]
    /\ websockets' = onclose(w)
    /\ transportEnded' = [transportEnded EXCEPT ![w] = TRUE]
    /\ lastOp' = "serverClose"
    /\ UNCHANGED <<received, calls, closeAt, closedBy, establishFailed,
                   connectCalls, env, syncVars>>

Next ==
    \/ \E k \in env.keys, hasOnError \in env.onErrorGiven :
          connectDocumentSocket(k[1], k[2], hasOnError)
    \/ closeAllWebSockets
    \/ \E w \in DOMAIN sockets : WsOpen(w)
    \/ \E w \in DOMAIN sockets, raw \in env.frames, throws \in env.onUpdateThrows :
          WsMessage(w, raw, throws)
    \/ \E w \in DOMAIN sockets : WsFail(w)
    \/ \E w \in DOMAIN sockets : WsClosed(w)
    \/ \E w \in DOMAIN sockets : WsServerClose(w)

Spec == Init /\ [][Next]_vars

SpecReplace == InitReplace /\ [][Next]_vars

SpecCodec == InitCodec /\ [][Next]_vars

SpecThrow == InitThrow /\ [][Next]_vars

SpecCollide == InitCollide /\ [][Next]_vars

\* ================================================================== request/response
PaperIds == { "p1", "p2" }

\* metadata as the local store holds it, and as the backend returns it
LocalMetadata(paperId) == [paperId |-> paperId, title |-> "local"]
RemoteMetadata(paperId) == [paperId |-> paperId, title |-> "remote"]

\* the calls that are awaiting the response of their fetch
Pending(op, arxivId) ==
    { i \in DOMAIN apiCalls :
        /\ apiCalls[i].op = op
        /\ apiCalls[i].arxivId = arxivId
        /\ apiCalls[i].result.t = "pending" }

\* fetchApi up to `await fetch(url, ...)`: the call issues its own request
fetchApi(op, arxivId, by) ==
    [op |-> op, arxivId |-> arxivId, by |-> by,
     fetch |-> Len(apiCalls) + 1,
     joined |-> IF Pending(op, arxivId) = {} THEN 0
                ELSE CHOOSE i \in Pending(op, arxivId) :
                        \A j \in Pending(op, arxivId) : i <= j,
     result |-> [t |-> "pending"]]

\* response.json() of a successful response
ResponseJson(op, arxivId) ==
    IF op = "requestPaperImport"
    THEN [metadata |-> RemoteMetadata(arxivId)]
    ELSE IF op = "getImportStatus"
         THEN [paper_id |-> arxivId, status |-> "processing"]
         ELSE RemoteMetadata(arxivId)

\* requestPaperImport: POST /api/papers/import
requestPaperImport(arxivId) ==
    /\ Len(apiCalls) < env.maxApiCalls
    /\ apiCalls' = Append(apiCalls, fetchApi("requestPaperImport", arxivId, "consumer"))
    /\ lastOp' = "requestPaperImport"
    /\ UNCHANGED <<socketVars, historyStore, paperToMetadataMap, home, lastLoad>>

\* getMetadata: GET /api/metadata/{arxivId}
getMetadata(arxivId) ==
    /\ Len(apiCalls) < env.maxApiCalls
    /\ apiCalls' = Append(apiCalls, fetchApi("getMetadata", arxivId, "consumer"))
    /\ lastOp' = "getMetadata"
    /\ UNCHANGED <<socketVars, historyStore, paperToMetadataMap, home, lastLoad>>

\* getImportStatus: GET /api/papers/status/{arxivId}/{version}
getImportStatus(arxivId, version) ==
    /\ Len(apiCalls) < env.maxApiCalls
    /\ apiCalls' = Append(apiCalls,
                          fetchApi("getImportStatus", arxivId, "consumer")
                              @@ [version |-> version])
    /\ lastOp' = "getImportStatus"
    /\ UNCHANGED <<socketVars, historyStore, paperToMetadataMap, home, lastLoad>>

\* a successful metadata response that is also written into the metadata map
FetchOkStoring(i) ==
    /\ apiCalls[i].result.t = "pending"
    /\ apiCalls' = [apiCalls EXCEPT ![i].result =
                       [t |-> "value",
                        v |-> ResponseJson(apiCalls[i].op, apiCalls[i].arxivId)]]
    /\ paperToMetadataMap' =
          IF apiCalls[i].op = "getMetadata"
          THEN MapSet(paperToMetadataMap, apiCalls[i].arxivId,
                      RemoteMetadata(apiCalls[i].arxivId))
          ELSE paperToMetadataMap
    /\ lastOp' = "fetchOk"
    /\ UNCHANGED <<socketVars, historyStore, home, lastLoad>>

\* the response is OK: the awaiting call returns response.json()
FetchOk(i) ==
    /\ apiCalls[i].result.t = "pending"
    /\ apiCalls' = [apiCalls EXCEPT ![i].result =
                       [t |-> "value",
                        v |-> ResponseJson(apiCalls[i].op, apiCalls[i].arxivId)]]
    /\ lastOp' = "fetchOk"
    /\ UNCHANGED <<socketVars, historyStore, paperToMetadataMap, home, lastLoad>>

\* a failed response that also writes an "absent" entry for the id
FetchNotOkPoisoning(i, detail) ==
    /\ apiCalls[i].result.t = "pending"
    /\ apiCalls' = [apiCalls EXCEPT ![i].result = [t |-> "error", detail |-> detail]]
    /\ paperToMetadataMap' =
          MapSet(paperToMetadataMap, apiCalls[i].arxivId,
                 [paperId |-> apiCalls[i].arxivId, title |-> "absent"])
    /\ lastOp' = "fetchNotOk"
    /\ UNCHANGED <<socketVars, historyStore, home, lastLoad>>

\* !response.ok: throw new Error(error.detail || `HTTP ${status}: ...`)
FetchNotOk(i, detail) ==
    /\ apiCalls[i].result.t = "pending"
    /\ apiCalls' = [apiCalls EXCEPT ![i].result = [t |-> "error", detail |-> detail]]
    /\ lastOp' = "fetchNotOk"
    /\ UNCHANGED <<socketVars, historyStore, paperToMetadataMap, home, lastLoad>>

\* fetch itself rejects (network failure): the catch block rethrows
FetchThrows(i) ==
    /\ apiCalls[i].result.t = "pending"
    /\ apiCalls' = [apiCalls EXCEPT ![i].result =
                       [t |-> "error", detail |-> "Failed to fetch"]]
    /\ lastOp' = "fetchThrows"
    /\ UNCHANGED <<socketVars, historyStore, paperToMetadataMap, home, lastLoad>>

\* ================================================================== HomeService
\* HistoryService keeps the papers the user has opened; a paper may have been
\* stored without metadata.
PaperDataOf(paperId) ==
    { [hasMetadata |-> TRUE, metadata |-> LocalMetadata(paperId)],
      [hasMetadata |-> FALSE] }

Stores ==
    UNION { { st \in [ids -> UNION { PaperDataOf(p) : p \in ids }] :
                \A p \in ids : st[p] \in PaperDataOf(p) } : ids \in SUBSET PaperIds }

\* the order in which the store lists its papers
PaperOrder == <<"p1", "p2">>

\* historyService.getPaperHistory()
getPaperHistory ==
    LET stored(p) == p \in DOMAIN historyStore
        ids == SelectSeq(PaperOrder, stored)
    IN [i \in 1..Len(ids) |-> historyStore[ids[i]]]

\* historyService.getPaperData(paperId)
getPaperData(paperId) ==
    IF paperId \in DOMAIN historyStore
    THEN [t |-> "object", data |-> historyStore[paperId]]
    ELSE JsUndefined

\* getPaperHistory().map(item => item.metadata?.paperId).filter(id => id !== undefined)
LocalPaperIds ==
    LET hasId(item) == item.hasMetadata
        items == SelectSeq(getPaperHistory, hasId)
    IN [i \in 1..Len(items) |-> items[i].metadata.paperId]

\* paperIds arguments of loadMetadata; "" is the empty id
LoadLists ==
    { << >>, <<"p1">>, <<"p2">>, <<"p1", "p2">>, <<"p2", "p1">>, <<"", "p2">> }

\* loadMetadata that returns after the first paper it loads
RECURSIVE LoadMetadataReturning(_, _, _)
LoadMetadataReturning(map, paperIds, forceReload) ==
    IF paperIds = << >> THEN map
    ELSE LET paperId == Head(paperIds)
             paperData == getPaperData(paperId)
         IN IF paperId = "" \/ (paperId \in DOMAIN map /\ ~forceReload)
            THEN LoadMetadataReturning(map, Tail(paperIds), forceReload)
            ELSE IF paperData.t = "object" /\ paperData.data.hasMetadata
                 THEN MapSet(map, paperId, paperData.data.metadata)
                 ELSE LoadMetadataReturning(map, Tail(paperIds), forceReload)

\* the loop of loadMetadata over paperIds
RECURSIVE LoadMetadataLoop(_, _, _)
LoadMetadataLoop(map, paperIds, forceReload) ==
    IF paperIds = << >> THEN map
    ELSE LET paperId == Head(paperIds)
             paperData == getPaperData(paperId)
         IN IF paperId = "" \/ (paperId \in DOMAIN map /\ ~forceReload)
            THEN LoadMetadataLoop(map, Tail(paperIds), forceReload)
            ELSE IF paperData.t = "object" /\ paperData.data.hasMetadata
                 THEN LoadMetadataLoop(MapSet(map, paperId, paperData.data.metadata),
                                       Tail(paperIds), forceReload)
                 \* not in local storage: nothing is fetched (TODO in the source)
                 ELSE LoadMetadataLoop(map, Tail(paperIds), forceReload)

\* loadMetadata that empties the map before a forced reload
LoadMetadataClearing(map, paperIds, forceReload) ==
    LoadMetadataLoop(IF forceReload THEN << >> ELSE map, paperIds, forceReload)

\* the map loadMetadata(paperIds, forceReload) leaves
LoadMetadata(map, paperIds, forceReload) ==
    LoadMetadataLoop(map, paperIds, forceReload)

\* the effect of one loadMetadata call, made by operation op
LoadMetadataCall(paperIds, forceReload, op) ==
    /\ paperToMetadataMap' = LoadMetadata(paperToMetadataMap, paperIds, forceReload)
    /\ lastLoad' = <<paperIds, forceReload>>
    /\ lastOp' = IF /\ op = "loadMetadata"
                    /\ lastOp \in {"loadMetadata", "loadMetadataAgain"}
                    /\ lastLoad = <<paperIds, forceReload>>
                 THEN "loadMetadataAgain" ELSE op

loadMetadata(paperIds, forceReload) ==
    /\ LoadMetadataCall(paperIds, forceReload, "loadMetadata")
    /\ UNCHANGED <<socketVars, apiCalls, historyStore, home>>

setCurrentCollection(currentCollectionId) ==
    /\ home' = [home EXCEPT !.currentCollection = "undefined"]
    /\ LoadMetadataCall(LocalPaperIds, FALSE, "setCurrentCollection")
    /\ UNCHANGED <<socketVars, apiCalls, historyStore>>

loadCollections(currentCollectionId, forceReload) ==
    /\ home' = IF ~home.hasLoadedCollections \/ forceReload
               THEN [collections |-> << >>, hasLoadedCollections |-> TRUE,
                     isLoadingCollections |-> FALSE,
                     currentCollection |-> "undefined"]
               ELSE [home EXCEPT !.currentCollection = "undefined"]
    /\ LoadMetadataCall(LocalPaperIds, FALSE, "loadCollections")
    /\ UNCHANGED <<socketVars, apiCalls, historyStore>>

\* ------------------------------------------------------------------ runs
\* request runs: one local store, short loads, concurrent requests
InitRest ==
    /\ InitState
    /\ historyStore = [p \in {"p1"} |->
                          [hasMetadata |-> TRUE, metadata |-> LocalMetadata(p)]]
    /\ env = [maxApiCalls |-> MaxApiCalls, loadLists |-> { <<"p1">>, <<"p2">> },
              maxSockets |-> 0]

\* cache runs: every local store, longer loads, few requests
InitHome ==
    /\ InitState
    /\ historyStore \in Stores
    /\ env = [maxApiCalls |-> HomeMaxApiCalls, loadLists |-> LoadLists,
              maxSockets |-> 0]

NextSync ==
    \/ \E arxivId \in PaperIds : requestPaperImport(arxivId)
    \/ \E arxivId \in PaperIds : getMetadata(arxivId)
    \/ \E i \in DOMAIN apiCalls : FetchOk(i)
    \/ \E i \in DOMAIN apiCalls : FetchNotOk(i, "Paper not found")
    \/ \E i \in DOMAIN apiCalls : FetchThrows(i)
    \/ \E paperIds \in env.loadLists, forceReload \in BOOLEAN :
          loadMetadata(paperIds, forceReload)
    \/ \E currentCollectionId \in {"undefined", "c1"} :
          setCurrentCollection(currentCollectionId)
    \/ \E currentCollectionId \in {"undefined", "c1"}, forceReload \in BOOLEAN :
          loadCollections(currentCollectionId, forceReload)

SpecRest == InitRest /\ [][NextSync]_vars

\* the cache runs leave out import requests and failing responses
NextHome ==
    \/ \E arxivId \in PaperIds : getMetadata(arxivId)
    \/ \E i \in DOMAIN apiCalls : FetchOk(i)
    \/ \E paperIds \in env.loadLists, forceReload \in BOOLEAN :
          loadMetadata(paperIds, forceReload)
    \/ \E currentCollectionId \in {"undefined", "c1"} :
          setCurrentCollection(currentCollectionId)
    \/ \E currentCollectionId \in {"undefined", "c1"}, forceReload \in BOOLEAN :
          loadCollections(currentCollectionId, forceReload)

SpecHome == InitHome /\ [][NextHome]_vars

\* input runs: channels and status polls with an empty id or an empty version
InitFacade ==
    /\ InitState
    /\ env = [maxSockets |-> FacadeMaxSockets, maxFrames |-> FacadeMaxFrames,
              keys |-> EmptyKeys, frames |-> RegistryFrames,
              onErrorGiven |-> {TRUE}, onUpdateThrows |-> {FALSE},
              maxApiCalls |-> FacadeMaxApiCalls]
    /\ historyStore = << >>

NextFacade ==
    \/ Next
    \/ \E arxivId \in StatusIds, version \in StatusVersions :
          getImportStatus(arxivId, version)
    \/ \E i \in DOMAIN apiCalls : FetchOk(i)

SpecFacade == InitFacade /\ [][NextFacade]_vars

\* import runs: one document, its import requests and its update channel
InitImport ==
    /\ InitState
    /\ env = [maxSockets |-> ImportMaxSockets, maxFrames |-> ImportMaxFrames,
              keys |-> CodecKeys, frames |-> ImportFrames,
              onErrorGiven |-> {TRUE}, onUpdateThrows |-> {FALSE},
              maxApiCalls |-> ImportMaxApiCalls]
    /\ historyStore = << >>

NextImport ==
    \/ Next
    \/ requestPaperImport("a")
    \/ \E i \in DOMAIN apiCalls : FetchOk(i)

SpecImport == InitImport /\ [][NextImport]_vars

\* ================================================================== properties
\* A channel is open while nobody has closed it: CONNECTING or OPEN.
Live(w) == sockets[w].readyState \in {"CONNECTING", "OPEN"}

SameDocument(v, w) ==
    sockets[v].arxivId = sockets[w].arxivId /\ sockets[v].version = sockets[w].version

\* number of invocations of callback cb on socket w, counted from call `from`
CountFrom(w, cb, from) ==
    Cardinality({ i \in from..Len(calls[w]) : calls[w][i].cb = cb })

\* indices of the frames of socket w that decoded, in arrival order
DecodedFrames(w) ==
    LET ok(i) == Decodes(received[w][i])
    IN SelectSeq([i \in 1..Len(received[w]) |-> i], ok)

\* the onUpdate invocations of socket w, in order
Updates(w) ==
    LET isUpdate(c) == c.cb = "onUpdate" IN SelectSeq(calls[w], isUpdate)

\* C1: for every (arxivId, version), at most one channel of that document is
\* open at any time, whatever the order of calls and transport events.
C1_AtMostOneOpenChannel ==
    \A v, w \in DOMAIN sockets :
        (v # w /\ SameDocument(v, w)) => ~(Live(v) /\ Live(w))

\* C2: a channel replaced by connectDocumentSocket before any message arrived
\* on it is closed, its onError is never invoked after the replacement, and
\* right after the call exactly one channel of the document is open.
C2_ReplacementIsSilent ==
    /\ \A w \in DOMAIN sockets :
          (closedBy[w] = "replace" /\ received[w] = << >>) =>
              /\ ~Live(w)
              /\ CountFrom(w, "onError", closeAt[w] + 1) = 0
    /\ lastOp = "connect" =>
          Cardinality({ w \in DOMAIN sockets :
                          Live(w) /\ SameDocument(w, Len(sockets)) }) = 1

\* C3: a frame that is not JSON leaves its socket and the registry as they
\* were, and a well-formed frame that follows malformed ones on the same
\* socket is delivered to onUpdate.
C3_MalformedFrameKeepsChannel ==
    [][\A w \in DOMAIN sockets :
          Len(received'[w]) = Len(received[w]) + 1 =>
              LET raw == received'[w][Len(received'[w])] IN
              /\ ~JSONparse(raw).ok =>
                    /\ sockets'[w] = sockets[w]
                    /\ websockets' = websockets
              /\ (Decodes(raw) /\ \E i \in 1..Len(received[w]) :
                                      ~JSONparse(received[w][i]).ok) =>
                    /\ Len(calls'[w]) = Len(calls[w]) + 1
                    /\ calls'[w][Len(calls'[w])].cb = "onUpdate"
                    /\ calls'[w][Len(calls'[w])].frame = Len(received'[w])]_vars

C3_Witness ==
    \E w \in DOMAIN sockets :
        /\ Len(received[w]) = 2
        /\ ~JSONparse(received[w][1]).ok
        /\ Decodes(received[w][2])
        /\ sockets[w].readyState = "OPEN"
        /\ sockets[w].wsKey \in DOMAIN websockets
        /\ websockets[sockets[w].wsKey] = w
        /\ \E i \in 1..Len(calls[w]) :
              calls[w][i].cb = "onUpdate" /\ calls[w][i].frame = 2

\* C4: every frame that fails to decode is reported through the onError of
\* its channel, and onUpdate is invoked only for frames that decoded.
C4_DecodeFailureReachesOnError ==
    \A w \in DOMAIN sockets :
        /\ sockets[w].hasOnError =>
              \A i \in 1..Len(received[w]) :
                  ~Decodes(received[w][i]) =>
                      \E j \in 1..Len(calls[w]) :
                          calls[w][j].cb = "onError" /\ calls[w][j].frame = i
        /\ \A j \in 1..Len(calls[w]) :
              calls[w][j].cb = "onUpdate" => Decodes(received[w][calls[w][j].frame])

\* C5: onUpdate is never invoked for a frame whose envelope paper_id or
\* version differs from the (arxivId, version) of the channel it arrived on.
C5_MismatchedEnvelopeNotDelivered ==
    \A w \in DOMAIN sockets :
        \A j \in 1..Len(calls[w]) :
            calls[w][j].cb = "onUpdate" =>
                LET message == JSONparse(received[w][calls[w][j].frame]).value IN
                /\ Member(message, "paper_id") = JsString(sockets[w].arxivId)
                /\ Member(message, "version") = JsString(sockets[w].version)

\* C6: on each channel the onUpdate invocations are, in order and one for
\* one, the frames that decoded: none reordered, merged, repeated or skipped.
C6_UpdatesFollowDecodedFrames ==
    \A w \in DOMAIN sockets :
        /\ [j \in 1..Len(Updates(w)) |-> Updates(w)[j].frame] = DecodedFrames(w)
        /\ \A j \in 1..Len(Updates(w)) :
              LET message == JSONparse(received[w][Updates(w)[j].frame]).value IN
              Updates(w)[j].arg \in {message, Member(message, "data")}

C6_Witness ==
    \E w \in DOMAIN sockets :
        /\ Len(Updates(w)) = 2
        /\ Updates(w)[1].arg # Updates(w)[2].arg
        /\ Len(received[w]) = 2

\* C7: once the service has called close() on a channel, no callback of that
\* channel is invoked any more.
C7_NoCallbackAfterClose ==
    \A w \in DOMAIN sockets :
        closeAt[w] >= 0 => Len(calls[w]) = closeAt[w]

\* C8: a closeAllWebSockets call leaves the registry empty and every channel
\* that was registered when it was called has had close() requested.
C8_CloseAllClosesEverything ==
    [][lastOp' = "closeAll" =>
          /\ websockets' = << >>
          /\ \A w \in Range(websockets) :
                sockets'[w].readyState \in {"CLOSING", "CLOSED"}]_vars

C8_Witness ==
    /\ lastOp = "closeAll"
    /\ websockets = << >>
    /\ Cardinality({ w \in DOMAIN sockets :
                       closedBy[w] = "closeAll"
                       /\ sockets[w].readyState = "CLOSING" }) >= 2

\* C9: closeAllWebSockets on an empty registry changes nothing and invokes no
\* callback, and a second call right after a first one changes nothing.
C9_CloseAllIdempotent ==
    [][/\ (websockets = << >> /\ lastOp' = "closeAll") =>
             UNCHANGED <<sockets, websockets, received, calls>>
       /\ (lastOp = "closeAll" /\ lastOp' = "closeAll") =>
             UNCHANGED <<sockets, websockets, received, calls>>]_vars

C9_Witness ==
    /\ lastOp = "closeAll"
    /\ websockets = << >>
    /\ sockets # << >>
    /\ \A w \in DOMAIN sockets : sockets[w].readyState = "CLOSED"
    /\ \E w \in DOMAIN sockets : closedBy[w] = "closeAll"

\* C10: a transport failure while a channel is CONNECTING invokes the onError
\* the consumer passed for that channel exactly once.
C10_EstablishFailureOneError ==
    \A w \in DOMAIN sockets :
        (establishFailed[w] /\ sockets[w].hasOnError) =>
            CountFrom(w, "onError", 1) = 1

C10_Witness ==
    \E w \in DOMAIN sockets :
        /\ establishFailed[w]
        /\ sockets[w].hasOnError
        /\ closedBy[w] = "none"
        /\ calls[w] = << [cb |-> "onError", frame |-> 0] >>


\* C11: connections are created by connectDocumentSocket calls only: the
\* number of sockets ever created equals the number of calls made, whatever
\* errors and closes have happened.
C11_NoAutomaticRetry == Len(sockets) = connectCalls

C11_Witness ==
    /\ connectCalls = 2
    /\ Len(sockets) = 2
    /\ \E w \in DOMAIN sockets : transportEnded[w] /\ calls[w] # << >>
    /\ \E w \in DOMAIN sockets : closedBy[w] # "none"

\* C12: a channel whose transport failed, or that the server closed, is
\* closed and is no longer the registry's entry of any key (the error and
\* close events of one closure are dispatched together).
C12_EndedChannelIsRemoved ==
    \A w \in DOMAIN sockets :
        transportEnded[w] =>
            /\ sockets[w].readyState = "CLOSED"
            /\ \A k \in DOMAIN websockets : websockets[k] # w

C12_Witness ==
    \E w \in DOMAIN sockets :
        /\ transportEnded[w]
        /\ closedBy[w] = "none"
        /\ sockets[w].readyState = "CLOSED"
        /\ sockets[w].wsKey \notin DOMAIN websockets
        /\ lastOp \in {"fail", "serverClose"}

\* C13: on a channel connected with an onError callback, every transport
\* error and every frame that fails to decode invokes at least one callback
\* (onError or onUpdate) of that channel.
C13_NoSilentError ==
    \A w \in DOMAIN sockets : sockets[w].hasOnError =>
        /\ \A i \in 1..Len(received[w]) :
              ~Decodes(received[w][i]) =>
                  \E j \in 1..Len(calls[w]) : calls[w][j].frame = i
        /\ establishFailed[w] => calls[w] # << >>

\* C14: an import request made while an import request for the same paper is
\* still outstanding issues no backend call of its own: it is served by the
\* outstanding POST.
C14_ReentrantImportIssuesNoCall ==
    \A i \in DOMAIN apiCalls :
        (apiCalls[i].op = "requestPaperImport" /\ apiCalls[i].joined # 0) =>
            apiCalls[i].fetch = apiCalls[apiCalls[i].joined].fetch

\* C15: a metadata request made while a fetch for the same id is in flight
\* shares that fetch, and both callers get the same outcome.
C15_ConcurrentMetadataShareFetch ==
    \A i \in DOMAIN apiCalls :
        (apiCalls[i].op = "getMetadata" /\ apiCalls[i].joined # 0) =>
            LET first == apiCalls[apiCalls[i].joined] IN
            /\ apiCalls[i].fetch = first.fetch
            /\ (apiCalls[i].result.t # "pending" /\ first.result.t # "pending") =>
                  apiCalls[i].result = first.result

\* C16: after loadMetadata, a requested id the local store has metadata for
\* holds that metadata and caused no remote fetch, and a requested id the
\* local store lacks has caused a remote metadata fetch.
C16_ReadThrough ==
    lastLoad # << >> =>
        \A k \in 1..Len(lastLoad[1]) :
            LET paperId == lastLoad[1][k]
                paperData == getPaperData(paperId)
                fetched == \E i \in DOMAIN apiCalls :
                              /\ apiCalls[i].by = "loadMetadata"
                              /\ apiCalls[i].op = "getMetadata"
                              /\ apiCalls[i].arxivId = paperId
            IN paperId # "" =>
                 IF paperData.t = "object" /\ paperData.data.hasMetadata
                 THEN /\ paperId \in DOMAIN paperToMetadataMap
                      /\ paperToMetadataMap[paperId] = paperData.data.metadata
                      /\ ~fetched
                 ELSE fetched

\* C17: when a request/response call fails, only that call gets the error:
\* every other call, the metadata map and the local store stay as they were.
C17_FailedCallOnlyFailsItsCaller ==
    [][\A i \in DOMAIN apiCalls :
          (apiCalls[i].result.t = "pending" /\ apiCalls'[i].result.t = "error") =>
              /\ \A j \in (DOMAIN apiCalls) \ {i} : apiCalls'[j] = apiCalls[j]
              /\ paperToMetadataMap' = paperToMetadataMap
              /\ historyStore' = historyStore]_vars

C17_Witness ==
    \E i, j \in DOMAIN apiCalls :
        /\ i < j
        /\ apiCalls[i].op = "getMetadata"
        /\ apiCalls[j].op = "getMetadata"
        /\ apiCalls[i].arxivId = apiCalls[j].arxivId
        /\ apiCalls[i].result.t = "error"
        /\ apiCalls[j].joined = 0
        /\ apiCalls[j].result.t = "value"
        /\ apiCalls[i].arxivId \notin DOMAIN paperToMetadataMap

\* C18: a loadMetadata call repeated with the same ids and the same
\* forceReload, the local store unchanged, leaves the metadata map as the
\* first call left it.
C18_LoadMetadataIdempotent ==
    [][lastOp' = "loadMetadataAgain" =>
          paperToMetadataMap' = paperToMetadataMap]_vars

C18_Witness ==
    /\ lastOp = "loadMetadataAgain"
    /\ Len(lastLoad[1]) = 2
    /\ lastLoad[1][1] # lastLoad[1][2]
    /\ \A k \in 1..2 : lastLoad[1][k] \in DOMAIN paperToMetadataMap

\* C19: whatever loads and remote responses have happened, the metadata held
\* for an id the local store has metadata for is the local store's metadata.
C19_LocalMetadataNotOverwritten ==
    \A paperId \in DOMAIN paperToMetadataMap :
        (paperId \in DOMAIN historyStore /\ historyStore[paperId].hasMetadata) =>
            paperToMetadataMap[paperId] = historyStore[paperId].metadata

C19_Witness ==
    /\ lastLoad # << >>
    /\ lastLoad[2]
    /\ \E i \in DOMAIN apiCalls :
          /\ apiCalls[i].op = "getMetadata"
          /\ apiCalls[i].result.t = "value"
          /\ apiCalls[i].arxivId \in DOMAIN paperToMetadataMap
          /\ paperToMetadataMap[apiCalls[i].arxivId] # apiCalls[i].result.v

\* C20: no step removes an id from the metadata map, and no step changes the
\* local store.
C20_NothingDeleted ==
    [][/\ DOMAIN paperToMetadataMap \subseteq DOMAIN paperToMetadataMap'
       /\ historyStore' = historyStore]_vars

C20_Witness ==
    /\ lastOp = "setCurrentCollection"
    /\ home.hasLoadedCollections
    /\ lastLoad # << >>
    /\ DOMAIN paperToMetadataMap = PaperIds

\* the status of document arxivId as the consumer has been told it: UNKNOWN
\* before any import request, REQUESTED once the latest request is made, then
\* what the latest payload delivered to onUpdate since that request says
DeliveredStatus(arxivId) ==
    LET n == ImportsRequested(arxivId)
        told(w) == { j \in 1..Len(calls[w]) :
                       /\ calls[w][j].cb = "onUpdate"
                       /\ calls[w][j].imports = n }
        tellers == { w \in DOMAIN sockets :
                       sockets[w].arxivId = arxivId /\ told(w) # {} }
    IN IF n = 0 THEN "UNKNOWN"
       ELSE IF tellers = {} THEN "REQUESTED"
       ELSE LET w == CHOOSE x \in tellers : \A y \in tellers : y <= x
                j == CHOOSE x \in told(w) : \A y \in told(w) : y <= x
            IN IF calls[w][j].arg = JsString("content") THEN "READY"
               ELSE IF calls[w][j].arg = JsString("processing") THEN "PROCESSING"
               ELSE "OTHER"

\* C21: an import request leaves the document REQUESTED; from there a status
\* frame with payload processing makes it PROCESSING and a data frame with the
\* content makes it READY, the content being what onUpdate receives; a
\* document that is READY stays READY until a fresh import request is made.
C21_ImportScenario ==
    [][/\ lastOp' = "requestPaperImport" => DeliveredStatus("a")' = "REQUESTED"
       /\ (lastOp' = "message" /\ DeliveredStatus("a") \in {"REQUESTED", "PROCESSING"}) =>
             DeliveredStatus("a")' \in {"PROCESSING", "READY"}
       /\ (DeliveredStatus("a") = "READY" /\ DeliveredStatus("a")' # "READY") =>
             lastOp' = "requestPaperImport"]_vars

\* C22: no channel is ever created or registered for an empty id or an empty
\* version, and no status request is issued to the backend for one.
C22_EmptyInputsRejected ==
    /\ \A w \in DOMAIN sockets :
          sockets[w].arxivId # "" /\ sockets[w].version # ""
    /\ \A i \in DOMAIN apiCalls :
          apiCalls[i].op = "getImportStatus" =>
              apiCalls[i].arxivId # "" /\ apiCalls[i].version # ""

\* C23: every channel that is still connecting or open is the registry's entry
\* for its key, so a later replacement or closeAllWebSockets will close it.
C23_RegistryTracksNewestChannel ==
    \A w \in DOMAIN sockets :
        Live(w) =>
            /\ sockets[w].wsKey \in DOMAIN websockets
            /\ websockets[sockets[w].wsKey] = w

\* the registry still holds socket w under the key it held it under
StaysRegistered(w) ==
    \A k \in DOMAIN websockets :
        websockets[k] = w => (k \in DOMAIN websockets' /\ websockets'[k] = w)

\* C24: opening or replacing the channel of one (arxivId, version) pair, and
\* the closure of a channel of that pair, leave the channel of every other
\* pair as it was and registered.
C24_DistinctPairsIndependent ==
    [][/\ lastOp' = "connect" =>
             \A w \in DOMAIN sockets :
                 (\/ sockets[w].arxivId # sockets'[Len(sockets')].arxivId
                  \/ sockets[w].version # sockets'[Len(sockets')].version) =>
                     sockets'[w] = sockets[w] /\ StaysRegistered(w)
       /\ lastOp' \in {"closed", "fail", "serverClose"} =>
             \A v, w \in DOMAIN sockets :
                 (sockets'[v] # sockets[v] /\ ~SameDocument(v, w)) =>
                     sockets'[w] = sockets[w] /\ StaysRegistered(w)]_vars

\* C25: every onUpdate invocation is for a frame whose envelope has a data
\* field, and its argument is that field's value.
C25_PayloadPassThrough ==
    \A w \in DOMAIN sockets :
        \A j \in 1..Len(calls[w]) :
            calls[w][j].cb = "onUpdate" =>
                LET message == JSONparse(received[w][calls[w][j].frame]).value IN
                /\ Member(message, "data") # JsUndefined
                /\ calls[w][j].arg = Member(message, "data")

\* C26: a frame whose onUpdate invocation throws leaves its socket and the
\* registry as they were, and a well-formed frame that arrives on a socket
\* after an invocation threw is delivered to onUpdate.
C26_ThrowingOnUpdateKeepsChannel ==
    [][\A w \in DOMAIN sockets :
          Len(received'[w]) = Len(received[w]) + 1 =>
              LET raw == received'[w][Len(received'[w])]
                  threwBefore == \E j \in 1..Len(calls[w]) :
                                    calls[w][j].cb = "onUpdate" /\ calls[w][j].threw
                  threwNow == /\ Len(calls'[w]) > Len(calls[w])
                              /\ calls'[w][Len(calls'[w])].threw
              IN
              /\ threwNow => (sockets'[w] = sockets[w] /\ websockets' = websockets)
              /\ (threwBefore /\ Decodes(raw)) =>
                    /\ Len(calls'[w]) = Len(calls[w]) + 1
                    /\ calls'[w][Len(calls'[w])].cb = "onUpdate"
                    /\ calls'[w][Len(calls'[w])].frame = Len(received'[w])]_vars

C26_Witness ==
    \E w \in DOMAIN sockets :
        /\ sockets[w].readyState = "OPEN"
        /\ sockets[w].wsKey \in DOMAIN websockets
        /\ websockets[sockets[w].wsKey] = w
        /\ Len(received[w]) = 2
        /\ Len(Updates(w)) = 2
        /\ Updates(w)[1].threw
        /\ Updates(w)[2].frame = 2

====
